---- MODULE Spec2Model ----
(***************************************************************************)
(* Model of package ircmessage (src/ircmessage.go, lines 302-677): the     *)
(* Scanner that decodes RFC1459 messages with IRCv3 tags from a rune       *)
(* stream, and the ParsePrefix routine.                                    *)
(*                                                                         *)
(* A string is a sequence of runes; a rune is a one-element TLA+ string.   *)
(* The source reader is a finite sequence of runes in which the element    *)
(* ErrIO stands for a read that fails with an I/O error; after the last    *)
(* element every read reports io.EOF.                                      *)
(***************************************************************************)
EXTENDS Integers, Sequences, FiniteSets, TLC

VARIABLES
    src,             \* what the underlying io.Reader delivers, in order
    pos,             \* bufio.Reader: number of elements of src consumed
    srcLast,         \* bufio.Reader.lastRuneSize (-1: UnreadRune is invalid)
    buf,             \* Scanner.buf
    rawBuf,          \* Scanner.rawBuf
    message,         \* Scanner.message
    err,             \* Scanner.err
    currentMsgSize,  \* Scanner.currentMsgSize
    lastRuneSize,    \* Scanner.lastRuneSize
    ret,             \* history: what the last call of Scan returned
    startPos,        \* history: pos when the last scan step (call of next) began
    raws,            \* history: Raw of every message returned so far, concatenated
    nscan,           \* history: number of calls of Scan so far
    nstopped,        \* history: calls of Scan that found the scan stopped
    gen,             \* history: the fields the stream was built from, if any
    in,              \* ParsePrefix: its argument
    parsed,          \* ParsePrefix: the *Prefix it returned
    called,          \* history: ParsePrefix has been called
    lastCall         \* history: the last call made on the cursor by itself

vars == <<src, pos, srcLast, buf, rawBuf, message, err, currentMsgSize,
          lastRuneSize, ret, startPos, raws, nscan, nstopped, gen,
          in, parsed, called, lastCall>>

----------------------------------------------------------------------------
(* Constants of the package and of the libraries it calls.                 *)

maxMessageSize == 512
runeAt == "@"
runeColon == ":"
runeSemicolon == ";"
runeSpace == " "
runeEquals == "="
tokenEquals == <<"=">>
tokenColon == <<":">>
tokenSemicolon == <<";">>
tokenSpace == <<" ">>
CR == "CR"          \* '\r'
LF == "LF"          \* '\n'
NUL == "NUL"        \* rune 0, what read returns with an error

nil == "nil"
ioEOF == "io.EOF"
ioErrUnexpectedEOF == "io.ErrUnexpectedEOF"
ErrMessageMalformed == "ErrMessageMalformed"
ErrIO == "ErrIO"                              \* any error of the source reader
ErrInvalidUnreadRune == "bufio.ErrInvalidUnreadRune"

(* Bounds of the model.                                                    *)
MaxLen == 5       \* longest stream of the free enumeration
MaxTag == 4       \* longest tag string of the tag streams
MaxScan == 3      \* calls of Scan in one behaviour
MaxText == 5      \* longest parameter text of the parameter streams
MaxGap == 3       \* longest run of spaces between two fields
Slack == 2        \* the padded streams end within Slack bytes of the budget
MaxPrefix == 5    \* longest argument of ParsePrefix
MaxCalls == 4     \* calls made on the cursor by itself in one behaviour
MaxLine == 4      \* longest stream under the cursor by itself
MaxLines == 3     \* most lines of a stream of lines
Beyond == 16      \* an endless stream is cut this far beyond both budgets

(* utf8 length of a rune, the n of ReadRune: "e'" is a two-byte rune.      *)
RuneSize(rn) == IF rn = "e'" THEN 2 ELSE 1

(* bytes.Buffer: its contents as runes, and its length in bytes.            *)
NewBuffer == [data |-> <<>>, len |-> 0]

----------------------------------------------------------------------------
(* package strings                                                         *)

(* strings.Index for a one-rune separator: 0 when absent (Go: -1), else    *)
(* the 1-based position of the first occurrence.                           *)
Index(s, sep) ==
    IF \E i \in 1..Len(s) : s[i] = sep[1]
    THEN CHOOSE i \in 1..Len(s) : s[i] = sep[1] /\ \A j \in 1..(i-1) : s[j] # sep[1]
    ELSE 0

Contains(s, sep) == Index(s, sep) > 0

HasPrefix(s, p) == Len(s) >= 1 /\ s[1] = p[1]

RECURSIVE Split(_, _)
Split(s, sep) ==
    LET i == Index(s, sep)
    IN  IF i = 0 THEN <<s>>
        ELSE <<SubSeq(s, 1, i-1)>> \o Split(SubSeq(s, i+1, Len(s)), sep)

RECURSIVE Join(_, _)
Join(a, sep) ==
    IF a = <<>> THEN <<>>
    ELSE IF Len(a) = 1 THEN a[1]
    ELSE a[1] \o sep \o Join(Tail(a), sep)

----------------------------------------------------------------------------
(* The scanner state the readers work on, and the zero Message.            *)

TheScanner ==
    [src |-> src, pos |-> pos, srcLast |-> srcLast, buf |-> buf,
     rawBuf |-> rawBuf, currentMsgSize |-> currentMsgSize,
     lastRuneSize |-> lastRuneSize]

NewScanner(r) ==
    [src |-> r, pos |-> 0, srcLast |-> -1, buf |-> NewBuffer,
     rawBuf |-> <<>>, currentMsgSize |-> 0, lastRuneSize |-> 0]

NilTags == [isNil |-> TRUE, kv |-> {}]

Message0 ==
    [Raw |-> <<>>, Tags |-> NilTags, Prefix |-> <<>>, Command |-> <<>>,
     Params |-> <<>>]

(* bufio.Reader.ReadRune: the next rune and its size, or the pending error *)
(* of the source, which is reported once and cleared.                      *)
ReadRune(s) ==
    IF s.pos >= Len(s.src)
    THEN [s |-> [s EXCEPT !.srcLast = -1], rn |-> NUL, n |-> 0, err |-> ioEOF]
    ELSE IF s.src[s.pos + 1] = ErrIO
    THEN [s |-> [s EXCEPT !.pos = @ + 1, !.srcLast = -1],
          rn |-> NUL, n |-> 0, err |-> ErrIO]
    ELSE [s |-> [s EXCEPT !.pos = @ + 1, !.srcLast = RuneSize(s.src[s.pos + 1])],
          rn |-> s.src[s.pos + 1], n |-> RuneSize(s.src[s.pos + 1]), err |-> nil]

(* bufio.Reader.UnreadRune: valid only right after a successful ReadRune.  *)
UnreadRune(s) ==
    IF s.srcLast < 0
    THEN [s |-> s, err |-> ErrInvalidUnreadRune]
    ELSE [s |-> [s EXCEPT !.pos = @ - 1, !.srcLast = -1], err |-> nil]

(* A read without the size check.                                          *)
readNoLimit(s) ==
    LET r == ReadRune(s)
    IN  IF r.err # nil THEN [s |-> r.s, ch |-> NUL, err |-> r.err]
        ELSE [s |-> [r.s EXCEPT !.lastRuneSize = r.n,
                                !.currentMsgSize = @ + r.n,
                                !.rawBuf = Append(@, r.rn)],
              ch |-> r.rn, err |-> nil]

read(s) ==
    LET r == ReadRune(s)
        s1 == [r.s EXCEPT !.lastRuneSize = r.n,
                          !.currentMsgSize = @ + r.n,
                          !.rawBuf = Append(@, r.rn)]
    IN  IF r.err # nil THEN [s |-> r.s, ch |-> NUL, err |-> r.err]
        ELSE IF s1.currentMsgSize > maxMessageSize
        THEN [s |-> s1, ch |-> NUL, err |-> ErrMessageMalformed]
        ELSE [s |-> s1, ch |-> r.rn, err |-> nil]

(* unread that forgets to take the rune out of rawBuf.                     *)
unreadKeepsRaw(s) ==
    LET u == UnreadRune(s)
    IN  IF u.err # nil THEN [s |-> s, err |-> u.err]
        ELSE [s |-> [u.s EXCEPT !.currentMsgSize = @ - s.lastRuneSize],
              err |-> nil]

unread(s) ==
    LET u == UnreadRune(s)
    IN  IF u.err # nil THEN [s |-> s, err |-> u.err]
        ELSE [s |-> [u.s EXCEPT !.currentMsgSize = @ - s.lastRuneSize,
                                !.rawBuf = SubSeq(@, 1, Len(@) - 1)],
              err |-> nil]

(* s.buf.Reset() and s.buf.WriteRune(ch).                                  *)
Reset(s) == [s EXCEPT !.buf = NewBuffer]

WriteRune(s, ch) ==
    [s EXCEPT !.buf = [data |-> Append(@.data, ch), len |-> @.len + RuneSize(ch)]]

(* A for loop is its pass applied until one pass leaves the loop.  Every   *)
(* pass that stays in a loop of this package has consumed an element of    *)
(* src, so Passes(s) passes always reach the exit; the loops below apply   *)
(* the pass that many times, by halves.                                    *)
Passes(s) == Len(s.src) - s.pos + 1

(* io.EOF in the middle of a segment is reported as io.ErrUnexpectedEOF.   *)
midEOF(e) == IF e = ioEOF THEN ioErrUnexpectedEOF ELSE e

(* A skipSpace that skips one space and stops.                             *)
skipSpaceOnce(l) ==
    LET r == read(l.s)
    IN  IF r.ch # runeSpace
        THEN [s |-> unread(r.s).s, done |-> TRUE, err |-> nil]
        ELSE [s |-> r.s, done |-> TRUE, err |-> nil]

skipSpacePass(l) ==
    LET r == read(l.s)
    IN  IF r.ch # runeSpace
        THEN [s |-> unread(r.s).s, done |-> TRUE, err |-> nil]
        ELSE [s |-> r.s, done |-> FALSE, err |-> nil]

RECURSIVE skipSpaceLoop(_, _)
skipSpaceLoop(l, n) ==
    IF l.done \/ n = 0 THEN l
    ELSE IF n = 1 THEN skipSpacePass(l)
    ELSE LET h == skipSpaceLoop(l, n \div 2) IN skipSpaceLoop(h, n - (n \div 2))

skipSpace(s) == skipSpaceLoop([s |-> s, done |-> FALSE, err |-> nil], Passes(s)).s

----------------------------------------------------------------------------
(* readTags                                                                *)

MapPut(m, k, v) == {p \in m : p[1] # k} \cup {<<k, v>>}

readTagsPass(l) ==
    LET r == read(l.s)
    IN  IF r.err # nil THEN [s |-> r.s, done |-> TRUE, err |-> midEOF(r.err)]
        ELSE IF r.ch = runeSpace THEN [s |-> r.s, done |-> TRUE, err |-> nil]
        ELSE IF r.s.buf.len >= maxMessageSize
        THEN [s |-> r.s, done |-> TRUE, err |-> ErrMessageMalformed]
        ELSE [s |-> WriteRune(r.s, r.ch), done |-> FALSE, err |-> nil]

RECURSIVE readTagsLoop(_, _)
readTagsLoop(l, n) ==
    IF l.done \/ n = 0 THEN l
    ELSE IF n = 1 THEN readTagsPass(l)
    ELSE LET h == readTagsLoop(l, n \div 2) IN readTagsLoop(h, n - (n \div 2))

RECURSIVE splitTagsLoop(_, _)
splitTagsLoop(toks, tagMap) ==
    IF toks = <<>> THEN [tagMap |-> tagMap, err |-> nil]
    ELSE LET v == toks[1]
             pair == Split(v, tokenEquals)
         IN  IF Contains(v, tokenEquals)
             THEN IF Len(pair) < 2 \/ Len(pair) > 2
                  THEN [tagMap |-> {}, err |-> ErrMessageMalformed]
                  ELSE splitTagsLoop(Tail(toks), MapPut(tagMap, pair[1], pair[2]))
             ELSE splitTagsLoop(Tail(toks), MapPut(tagMap, v, <<>>))

(* A tag string without a semicolon is appended to a slice nothing reads,  *)
(* so the map stays empty.                                                 *)
splitTags(tagString) ==
    IF ~Contains(tagString, tokenSemicolon)
    THEN [tagMap |-> {}, err |-> nil]
    ELSE splitTagsLoop(Split(tagString, tokenSemicolon), {})

(* readTags once its loop has left the state l.                            *)
readTagsSplit(l) ==
    LET t == splitTags(l.s.buf.data)
    IN  IF l.err # nil THEN [s |-> l.s, tags |-> NilTags, err |-> l.err]
        ELSE IF t.err # nil THEN [s |-> l.s, tags |-> NilTags, err |-> t.err]
        ELSE [s |-> skipSpace(l.s), tags |-> [isNil |-> FALSE, kv |-> t.tagMap],
              err |-> nil]

readTags(s) ==
    readTagsSplit(readTagsLoop([s |-> Reset(s), done |-> FALSE, err |-> nil],
                               Passes(s)))

----------------------------------------------------------------------------
(* readPrefix, readCommand                                                 *)

readPrefixPass(l) ==
    LET r == read(l.s)
    IN  IF r.err # nil THEN [s |-> r.s, done |-> TRUE, err |-> midEOF(r.err)]
        ELSE IF r.ch = runeSpace THEN [s |-> r.s, done |-> TRUE, err |-> nil]
        ELSE [s |-> WriteRune(r.s, r.ch), done |-> FALSE, err |-> nil]

RECURSIVE readPrefixLoop(_, _)
readPrefixLoop(l, n) ==
    IF l.done \/ n = 0 THEN l
    ELSE IF n = 1 THEN readPrefixPass(l)
    ELSE LET h == readPrefixLoop(l, n \div 2) IN readPrefixLoop(h, n - (n \div 2))

(* readPrefix once its loop has left the state l.                          *)
readPrefixEnd(l) ==
    IF l.err # nil THEN [s |-> l.s, prefix |-> <<>>, err |-> l.err]
    ELSE [s |-> skipSpace(l.s), prefix |-> l.s.buf.data, err |-> nil]

readPrefix(s) ==
    readPrefixEnd(readPrefixLoop([s |-> Reset(s), done |-> FALSE, err |-> nil],
                                 Passes(s)))

readCommandPass(l) ==
    LET r == read(l.s)
    IN  IF r.err # nil THEN [s |-> r.s, done |-> TRUE, err |-> midEOF(r.err)]
        ELSE IF r.ch = runeSpace THEN [s |-> r.s, done |-> TRUE, err |-> nil]
        ELSE IF r.ch = CR THEN [s |-> unread(r.s).s, done |-> TRUE, err |-> nil]
        ELSE [s |-> WriteRune(r.s, r.ch), done |-> FALSE, err |-> nil]

RECURSIVE readCommandLoop(_, _)
readCommandLoop(l, n) ==
    IF l.done \/ n = 0 THEN l
    ELSE IF n = 1 THEN readCommandPass(l)
    ELSE LET h == readCommandLoop(l, n \div 2) IN readCommandLoop(h, n - (n \div 2))

(* readCommand once its loop has left the state l.                         *)
readCommandEnd(l) ==
    LET s1 == skipSpace(l.s)
    IN  IF l.err # nil THEN [s |-> l.s, command |-> <<>>, err |-> l.err]
        ELSE [s |-> s1, command |-> s1.buf.data, err |-> nil]

(* A readCommand that does not reset the buffer.                           *)
readCommandKeepsBuf(s) ==
    readCommandEnd(readCommandLoop([s |-> s, done |-> FALSE, err |-> nil],
                                   Passes(s)))

readCommand(s) ==
    readCommandEnd(readCommandLoop([s |-> Reset(s), done |-> FALSE, err |-> nil],
                                   Passes(s)))

----------------------------------------------------------------------------
(* isLineEnd, readParams                                                   *)

(* isLineEnd after a carriage return, r2 being the second read: the two    *)
(* unread calls are made one after the other.                              *)
isLineEndLF(r2) ==
    IF r2.err # nil THEN [s |-> r2.s, end |-> FALSE, err |-> r2.err]
    ELSE IF r2.ch = LF THEN [s |-> r2.s, end |-> TRUE, err |-> nil]
    ELSE [s |-> unread(unread(r2.s).s).s, end |-> FALSE, err |-> nil]

(* isLineEnd, r1 being its first read.                                     *)
isLineEndCR(r1) ==
    IF r1.err # nil THEN [s |-> r1.s, end |-> FALSE, err |-> r1.err]
    ELSE IF r1.ch = CR THEN isLineEndLF(read(r1.s))
    ELSE [s |-> unread(r1.s).s, end |-> FALSE, err |-> nil]

isLineEnd(s) == isLineEndCR(read(s))

(* One pass of the loop of readParams, e being what isLineEnd returned:    *)
(* its error is discarded (end, _ := s.isLineEnd()).                       *)
readParamsRune(e) ==
    LET r == read(e.s)
    IN  IF e.end THEN [s |-> e.s, done |-> TRUE, err |-> nil]
        ELSE IF r.err # nil THEN [s |-> r.s, done |-> TRUE, err |-> midEOF(r.err)]
        ELSE [s |-> WriteRune(r.s, r.ch), done |-> FALSE, err |-> nil]

readParamsPass(l) == readParamsRune(isLineEnd(l.s))

RECURSIVE readParamsLoop(_, _)
readParamsLoop(l, n) ==
    IF l.done \/ n = 0 THEN l
    ELSE IF n = 1 THEN readParamsPass(l)
    ELSE LET h == readParamsLoop(l, n \div 2) IN readParamsLoop(h, n - (n \div 2))

RECURSIVE paramsLoop(_, _)
paramsLoop(paramString, params) ==
    IF paramString = <<>> THEN params
    ELSE LET v == paramString[1]
         IN  IF HasPrefix(v, tokenColon)
             THEN Append(params, Join(<<Tail(v)>> \o Tail(paramString), tokenSpace))
             ELSE IF v # <<>>
             THEN paramsLoop(Tail(paramString), Append(params, v))
             ELSE paramsLoop(Tail(paramString), params)

splitParams(text) == paramsLoop(Split(text, tokenSpace), <<>>)

(* readParams once its loop has left the state l.                          *)
readParamsEnd(l) ==
    IF l.err # nil THEN [s |-> l.s, params |-> <<>>, err |-> l.err]
    ELSE [s |-> l.s, params |-> splitParams(l.s.buf.data), err |-> nil]

readParams(s) ==
    readParamsEnd(readParamsLoop([s |-> Reset(s), done |-> FALSE, err |-> nil],
                                 Passes(s)))

----------------
(* next, Scan, Err                                                         *)

Fail(s, e) == [s |-> s, msg |-> Message0, err |-> e]

(* The parameters, p being what readParams returned: lines 596-601.        *)
nextParams(p, msg) ==
    IF p.err # nil THEN Fail(p.s, p.err)
    ELSE [s |-> p.s,
          msg |-> [msg EXCEPT !.Raw = p.s.rawBuf, !.Params = p.params],
          err |-> nil]

(* The line-end check, e being what isLineEnd returned: lines 587-596.     *)
nextLineEnd(e, msg) ==
    IF e.err # nil THEN Fail(e.s, e.err)
    ELSE IF e.end
    THEN [s |-> e.s, msg |-> [msg EXCEPT !.Raw = e.s.rawBuf], err |-> nil]
    ELSE nextParams(readParams(unread(e.s).s), msg)

(* The command, c being what readCommand returned: lines 582-587.          *)
nextCommandRead(c, tags, prefix) ==
    IF c.err # nil THEN Fail(c.s, c.err)
    ELSE nextLineEnd(isLineEnd(c.s),
                     [Raw |-> <<>>, Tags |-> tags, Prefix |-> prefix,
                      Command |-> c.command, Params |-> <<>>])

(* From the command on: lines 582-601.                                     *)
nextCommand(s, tags, prefix) == nextCommandRead(readCommand(s), tags, prefix)

(* The prefix, p being what readPrefix returned: lines 575-578.            *)
nextPrefixRead(p, tags) ==
    IF p.err # nil THEN Fail(p.s, p.err)
    ELSE nextCommand(p.s, tags, p.prefix)

(* The optional prefix: lines 572-581; ch is the rune read last.           *)
nextPrefix(s, ch, tags) ==
    IF ch = runeColon THEN nextPrefixRead(readPrefix(s), tags)
    ELSE nextCommand(unread(s).s, tags, <<>>)

(* The rune after the tag block, r2 being its read: lines 564-570.         *)
nextTagsRune(r2, tags) ==
    IF r2.err # nil THEN Fail(r2.s, midEOF(r2.err))
    ELSE nextPrefix(r2.s, r2.ch, tags)

(* A next that does not zero the size counter after the tag block.         *)
nextTagsKeepsSize(t) ==
    IF t.err # nil THEN Fail(t.s, t.err)
    ELSE nextTagsRune(read(t.s), t.tags)

(* The tag block, t being what readTags returned: lines 556-564.           *)
nextTags(t) ==
    IF t.err # nil THEN Fail(t.s, t.err)
    ELSE nextTagsRune(read([t.s EXCEPT !.currentMsgSize = 0]), t.tags)

(* The first rune of a message, r being its read: lines 549-571.           *)
nextRune(r) ==
    IF r.err # nil THEN Fail(r.s, r.err)
    ELSE IF r.ch = runeAt THEN nextTags(readTags(r.s))
    ELSE nextPrefix(r.s, r.ch, NilTags)

(* A next that does not empty the raw buffer.                              *)
nextKeepsRaw(s) == nextRune(read([s EXCEPT !.currentMsgSize = 0]))

next(s) == nextRune(read([s EXCEPT !.rawBuf = <<>>, !.currentMsgSize = 0]))

(* Scan, line 610: a recorded error stops the scan for good.              *)
scanStoppedNever == FALSE

scanStopped == err # nil

(* An Err that reports io.EOF as well.                                     *)
ErrVerbatim == err

Err == IF err = nil \/ err = ioEOF THEN nil ELSE err

(* A Scan that stores the Message of a failed step as well.               *)
ScanStoresFailure ==
    /\ nscan < MaxScan
    /\ nscan' = nscan + 1
    /\ UNCHANGED <<src, gen, in, parsed, called, lastCall>>
    /\ IF scanStopped
       THEN /\ ret' = FALSE
            /\ nstopped' = nstopped + 1
            /\ UNCHANGED <<pos, srcLast, buf, rawBuf, message, err,
                           currentMsgSize, lastRuneSize, raws, startPos>>
       ELSE \E n \in {next(TheScanner)} :
                /\ startPos' = pos
                /\ pos' = n.s.pos
                /\ srcLast' = n.s.srcLast
                /\ buf' = n.s.buf
                /\ rawBuf' = n.s.rawBuf
                /\ currentMsgSize' = n.s.currentMsgSize
                /\ lastRuneSize' = n.s.lastRuneSize
                /\ UNCHANGED nstopped
                /\ IF n.err # nil
                   THEN /\ err' = n.err
                        /\ ret' = FALSE
                        /\ message' = n.msg
                        /\ UNCHANGED raws
                   ELSE /\ message' = n.msg
                        /\ ret' = TRUE
                        /\ raws' = raws \o n.msg.Raw
                        /\ UNCHANGED err

Scan ==
    /\ nscan < MaxScan
    /\ nscan' = nscan + 1
    /\ UNCHANGED <<src, gen, in, parsed, called, lastCall>>
    /\ IF scanStopped
       THEN /\ ret' = FALSE
            /\ nstopped' = nstopped + 1
            /\ UNCHANGED <<pos, srcLast, buf, rawBuf, message, err,
                           currentMsgSize, lastRuneSize, raws, startPos>>
       ELSE \E n \in {next(TheScanner)} :
                /\ startPos' = pos
                /\ pos' = n.s.pos
                /\ srcLast' = n.s.srcLast
                /\ buf' = n.s.buf
                /\ rawBuf' = n.s.rawBuf
                /\ currentMsgSize' = n.s.currentMsgSize
                /\ lastRuneSize' = n.s.lastRuneSize
                /\ UNCHANGED nstopped
                /\ IF n.err # nil
                   THEN /\ err' = n.err
                        /\ ret' = FALSE
                        /\ UNCHANGED <<message, raws>>
                   ELSE /\ message' = n.msg
                        /\ ret' = TRUE
                        /\ raws' = raws \o n.msg.Raw
                        /\ UNCHANGED err

Next == Scan

----------------------------------------------------------------------------
(* The cursor by itself: calls of read, unread and isLineEnd on the        *)
(* scanner, one after the other, each recorded with the scanner it found.  *)

NoCall ==
    [op |-> "none", n |-> 0, before |-> NewScanner(<<>>), end |-> FALSE,
     err |-> nil]

CursorCall(op, after, end, e) ==
    /\ lastCall.n < MaxCalls
    /\ lastCall' = [op |-> op, n |-> lastCall.n + 1, before |-> TheScanner,
                    end |-> end, err |-> e]
    /\ pos' = after.pos
    /\ srcLast' = after.srcLast
    /\ buf' = after.buf
    /\ rawBuf' = after.rawBuf
    /\ currentMsgSize' = after.currentMsgSize
    /\ lastRuneSize' = after.lastRuneSize
    /\ UNCHANGED <<src, message, err, ret, startPos, raws, nscan, nstopped, gen,
                   in, parsed, called>>

ReadCall == \E r \in {read(TheScanner)} : CursorCall("read", r.s, FALSE, r.err)

UnreadCall == \E u \in {unread(TheScanner)} : CursorCall("unread", u.s, FALSE, u.err)

IsLineEndCall ==
    \E e \in {isLineEnd(TheScanner)} : CursorCall("isLineEnd", e.s, e.end, e.err)

NextCursor == ReadCall \/ UnreadCall \/ IsLineEndCall

----------------------------------------------------------------------------
(* ParsePrefix                                                             *)

(* A *Prefix: nil, or a pointer to a Prefix.                               *)
NilPrefix ==
    [isNil |-> TRUE, Raw |-> <<>>, IsServer |-> FALSE, Nickname |-> <<>>,
     User |-> <<>>, Host |-> <<>>]

NewPrefix(raw) == [NilPrefix EXCEPT !.isNil = FALSE, !.Raw = raw]

(* in[a:b] of Go, a and b counted from 0.                                  *)
Slice(s, a, b) == SubSeq(s, a + 1, b)

(* The Prefix filled in from the three positions: lines 657-676.          *)
prefixFields(s, dpos, upos, hpos) ==
    IF upos > 0
    THEN IF hpos > 0 /\ upos < hpos
         THEN [NewPrefix(s) EXCEPT !.Nickname = Slice(s, 0, upos - 1),
                                   !.User = Slice(s, upos, hpos - 1),
                                   !.Host = Slice(s, hpos, Len(s))]
         ELSE [NewPrefix(s) EXCEPT !.Nickname = Slice(s, 0, upos - 1),
                                   !.User = Slice(s, upos, Len(s))]
    ELSE IF hpos > 0
    THEN [NewPrefix(s) EXCEPT !.Nickname = Slice(s, 0, hpos - 1),
                              !.Host = Slice(s, hpos, Len(s))]
    ELSE IF dpos > 0
    THEN [NewPrefix(s) EXCEPT !.Host = s, !.IsServer = TRUE]
    ELSE [NewPrefix(s) EXCEPT !.Nickname = s]

(* A ParsePrefix that lets a leading '@' through.                          *)
ParsePrefixLeadingAt(s) ==
    LET upos == Index(s, <<"!">>)
    IN  IF Len(s) = 0 THEN NilPrefix
        ELSE IF s[1] = "!" THEN NilPrefix
        ELSE prefixFields(s, Index(s, <<".">>), upos,
                          Index(Slice(s, upos, Len(s)), <<"@">>) + upos)

(* A ParsePrefix that looks for '@' from the start of the string.          *)
ParsePrefixAnyAt(s) ==
    IF Len(s) = 0 THEN NilPrefix
    ELSE IF s[1] = "!" \/ s[1] = "@" THEN NilPrefix
    ELSE prefixFields(s, Index(s, <<".">>), Index(s, <<"!">>), Index(s, <<"@">>))

(* A ParsePrefix that takes a '.' for a server whatever else there is.     *)
ParsePrefixDotFirst(s) ==
    LET upos == Index(s, <<"!">>)
        dpos == Index(s, <<".">>)
    IN  IF Len(s) = 0 THEN NilPrefix
        ELSE IF s[1] = "!" \/ s[1] = "@" THEN NilPrefix
        ELSE IF dpos > 0 THEN prefixFields(s, dpos, 0, 0)
        ELSE prefixFields(s, dpos, upos,
                          Index(Slice(s, upos, Len(s)), <<"@">>) + upos)

ParsePrefix(s) ==
    LET upos == Index(s, <<"!">>)
    IN  IF Len(s) = 0 THEN NilPrefix
        ELSE IF s[1] = "!" \/ s[1] = "@" THEN NilPrefix
        ELSE prefixFields(s, Index(s, <<".">>), upos,
                          Index(Slice(s, upos, Len(s)), <<"@">>) + upos)

(* One call of ParsePrefix, on the string in.                              *)
Parse ==
    /\ ~called
    /\ called' = TRUE
    /\ parsed' = ParsePrefix(in)
    /\ UNCHANGED <<src, pos, srcLast, buf, rawBuf, message, err, currentMsgSize,
                   lastRuneSize, ret, startPos, raws, nscan, nstopped, gen, in,
                   lastCall>>

----------------------------------------------------------------------------
(* The streams the scanner is run on.                                      *)

Streams(A, n) == UNION {[1..k -> A] : k \in 0..n}

NoGen == [kind |-> "free"]

InitScanner(r, g) ==
    /\ src = r
    /\ pos = 0
    /\ srcLast = -1
    /\ buf = NewBuffer
    /\ rawBuf = <<>>
    /\ message = Message0
    /\ err = nil
    /\ currentMsgSize = 0
    /\ lastRuneSize = 0
    /\ ret = TRUE
    /\ startPos = 0
    /\ raws = <<>>
    /\ nscan = 0
    /\ nstopped = 0
    /\ gen = g
    /\ in = <<>>
    /\ parsed = NilPrefix
    /\ called = FALSE
    /\ lastCall = NoCall

(* Every stream of at most MaxLen elements that has no tag block, and      *)
(* every tag block of at most MaxTag runes before one of a few tails.      *)
Alphabet == {runeColon, runeSpace, CR, LF, "a", ErrIO}
TagAlphabet == {"a", "b", runeEquals, runeSemicolon}
TagTails ==
    {<<" ", "a", CR, LF>>,
     <<" ", " ", ":", "a", " ", "a", " ", "a", CR, LF>>,
     <<" ">>, <<>>, <<ErrIO>>}
TagStreams ==
    {<<runeAt>> \o t \o r : t \in Streams(TagAlphabet, MaxTag), r \in TagTails}

Init == \E r \in Streams(Alphabet, MaxLen) \cup TagStreams : InitScanner(r, NoGen)

Spec == Init /\ [][Next]_vars

(* The command "a", a space, a parameter text of at most MaxText runes and *)
(* the terminator.                                                         *)
ParamAlphabet == {"a", runeColon, runeSpace, CR}
ParamStreams ==
    {<<"a", " ">> \o t \o <<CR, LF>> : t \in Streams(ParamAlphabet, MaxText)}

InitParams == \E r \in ParamStreams : InitScanner(r, [kind |-> "params"])

SpecParams == InitParams /\ [][Next]_vars

(* One message put together from its fields, with a run of g[i] spaces at  *)
(* the i-th place where the format has a separator: after the tag block,   *)
(* after the prefix, before each parameter, and before the trailing        *)
(* parameter or, without one, before the terminator.  An optional field is *)
(* <<>> when absent and <<text>> when present.                             *)
Spaces(n) == [i \in 1..n |-> runeSpace]

Line(f, g) ==
       (IF f.tags = <<>> THEN <<>> ELSE <<runeAt>> \o f.tags[1] \o Spaces(g[1]))
    \o (IF f.prefix = <<>> THEN <<>> ELSE <<runeColon>> \o f.prefix[1] \o Spaces(g[2]))
    \o f.command
    \o (IF Len(f.params) >= 1 THEN Spaces(g[3]) \o f.params[1] ELSE <<>>)
    \o (IF Len(f.params) >= 2 THEN Spaces(g[4]) \o f.params[2] ELSE <<>>)
    \o (IF f.trailing # <<>> THEN Spaces(g[5]) \o <<runeColon>> \o f.trailing[1]
        ELSE IF f.endgap THEN Spaces(g[5]) ELSE <<>>)
    \o <<CR, LF>>

FieldSets ==
    [tags : {<<>>, << <<"a", ";", "b", "=", "a">> >>},
     prefix : {<<>>, << <<"a", "!", "b">> >>},
     command : {<<"a">>},
     params : {<<>>, << <<"a">>, <<"b", ":", "a">> >>},
     trailing : {<<>>, << <<"a", " ", " ", "b", " ">> >>},
     endgap : BOOLEAN]
Fields == {f \in FieldSets : f.trailing = <<>> \/ ~f.endgap}

GapPlaces == DOMAIN <<"tags", "prefix", "param", "param", "trailing">>
Gaps == [GapPlaces -> 1..MaxGap]
OneSpace == [i \in GapPlaces |-> 1]

InitSpaces ==
    \E f \in Fields, g \in Gaps :
        InitScanner(Line(f, g), [kind |-> "fields", f |-> f, g |-> g])

SpecSpaces == InitSpaces /\ [][Next]_vars

(* Streams as long as the size budget: a head, n times one rune, a tail.   *)
(* The padding falls into the tag block after the head "@" and into the    *)
(* rest of the message after the other heads.                              *)
Pad(c, n) == [i \in 1..n |-> c]

Heads ==
    {<<>>, <<"a", " ">>, <<runeColon, "a", " ", "a", " ">>, <<runeAt>>,
     <<runeAt, "a", ";", "b", " ">>}
PadRunes == {"a", "e'"}
Tails ==
    {<<>>, <<"a">>, <<CR, LF>>, <<CR>>, <<" ">>, <<" ", "a", CR, LF>>,
     <<" ", " ", "a", CR, LF>>, <<"a", CR, LF, "a", CR, LF>>}

PadCounts(c) ==
    {n \in 0..(maxMessageSize + Slack) :
        n * RuneSize(c) \in (maxMessageSize - Slack - 6)..(maxMessageSize + Slack)}

InitBudget ==
    \E h \in Heads, c \in PadRunes, t \in Tails :
        \E n \in PadCounts(c) :
            InitScanner(h \o Pad(c, n) \o t,
                        [kind |-> "budget", head |-> h, pad |-> c, n |-> n, tail |-> t])

SpecBudget == InitBudget /\ [][Next]_vars

(* Streams of at most MaxLines lines, each a body and CR LF.  The first    *)
(* bodies are messages of the format; the others are an empty line, a      *)
(* command with a space after it, a prefix and a tag block that no space   *)
(* ends, and a parameter that is a CR.                                     *)
Messages ==
    {<<"a">>,
     <<"a", " ", "b">>,
     <<runeColon, "a", " ", "a", " ", runeColon, "b", " ", "b">>,
     <<runeAt, "a", "=", "b", ";", "a", " ", "a">>}
LineBodies ==
    Messages \cup
    {<<>>, <<"a", " ">>, <<runeColon, "a">>, <<runeAt, "a">>, <<"a", " ", CR>>}

RECURSIVE Lines(_)
Lines(bodies) ==
    IF bodies = <<>> THEN <<>>
    ELSE bodies[1] \o <<CR, LF>> \o Lines(Tail(bodies))

InitLines ==
    \E k \in 1..MaxLines :
        \E bodies \in [1..k -> LineBodies] :
            InitScanner(Lines(bodies), [kind |-> "lines", bodies |-> bodies])

SpecLines == InitLines /\ [][Next]_vars

(* Streams that do not end: a head and then one element again and again,  *)
(* cut where no scan step gets to.  On them Scan is called as on any       *)
(* stream; and the loop of a reader is taken up after k passes from the    *)
(* start of the stream, with the budget far off or about to run out, and   *)
(* run one pass at a time.                                                 *)
EndlessHeads ==
    {<<>>, <<runeAt>>, <<runeAt, "a", " ">>, <<runeColon>>,
     <<runeColon, "a", " ">>, <<"a", " ">>,
     <<runeAt, "a", " ", runeColon, "a", " ", "a", " ">>,
     <<"a", CR, LF, runeAt, "a", " ">>}
EndlessRunes == {"a", "e'", runeSpace, CR, LF, ErrIO}
EndlessStreams ==
    {h \o Pad(c, 2 * maxMessageSize + Beyond) : h \in EndlessHeads, c \in EndlessRunes}

Loops == {"skipSpace", "readTags", "readPrefix", "readCommand", "readParams"}

LoopPass(x, l) ==
    CASE x = "skipSpace" -> skipSpacePass(l)
      [] x = "readTags" -> readTagsPass(l)
      [] x = "readPrefix" -> readPrefixPass(l)
      [] x = "readCommand" -> readCommandPass(l)
      [] x = "readParams" -> readParamsPass(l)

LoopRun(x, l, k) ==
    CASE x = "skipSpace" -> skipSpaceLoop(l, k)
      [] x = "readTags" -> readTagsLoop(l, k)
      [] x = "readPrefix" -> readPrefixLoop(l, k)
      [] x = "readCommand" -> readCommandLoop(l, k)
      [] x = "readParams" -> readParamsLoop(l, k)

InLoop(s) == [s |-> s, done |-> FALSE, err |-> nil]

PassCounts == {0} \cup ((maxMessageSize - Slack)..(maxMessageSize + Slack))

(* The scanner as the passes of a loop have left it.                       *)
InitLoop(l, g) ==
    /\ ~l.done
    /\ src = l.s.src
    /\ pos = l.s.pos
    /\ srcLast = l.s.srcLast
    /\ buf = l.s.buf
    /\ rawBuf = l.s.rawBuf
    /\ currentMsgSize = l.s.currentMsgSize
    /\ lastRuneSize = l.s.lastRuneSize
    /\ message = Message0
    /\ err = nil
    /\ ret = TRUE
    /\ startPos = 0
    /\ raws = <<>>
    /\ nscan = 0
    /\ nstopped = 0
    /\ gen = g
    /\ in = <<>>
    /\ parsed = NilPrefix
    /\ called = FALSE
    /\ lastCall = NoCall

InitEndless ==
    \E r \in EndlessStreams :
        \/ InitScanner(r, [kind |-> "endless"])
        \/ \E x \in Loops, k \in PassCounts :
               InitLoop(LoopRun(x, InLoop(NewScanner(r)), k),
                        [kind |-> "loop", loop |-> x, passes |-> k])

(* One more pass of the loop, unless the last one has left it.             *)
PassCall ==
    /\ gen.kind = "loop"
    /\ ~lastCall.end
    /\ \E l \in {LoopPass(gen.loop, InLoop(TheScanner))} :
           CursorCall(gen.loop, l.s, l.done, l.err)

ScanEndless == gen.kind = "endless" /\ Scan

NextEndless == ScanEndless \/ PassCall

SpecEndless == InitEndless /\ [][NextEndless]_vars

(* Every stream of at most MaxLine elements under the cursor by itself.    *)
CursorAlphabet == {CR, LF, "a", ErrIO}

InitCursor ==
    \E r \in Streams(CursorAlphabet, MaxLine) : InitScanner(r, [kind |-> "cursor"])

SpecCursor == InitCursor /\ [][NextCursor]_vars

(* Every string of at most MaxPrefix runes as the argument of ParsePrefix. *)
PrefixAlphabet == {"a", "b", "!", "@", "."}

InitPrefix ==
    \E r \in Streams(PrefixAlphabet, MaxPrefix) :
        /\ src = <<>>
        /\ pos = 0
        /\ srcLast = -1
        /\ buf = NewBuffer
        /\ rawBuf = <<>>
        /\ message = Message0
        /\ err = nil
        /\ currentMsgSize = 0
        /\ lastRuneSize = 0
        /\ ret = TRUE
        /\ startPos = 0
        /\ raws = <<>>
        /\ nscan = 0
        /\ nstopped = 0
        /\ gen = [kind |-> "prefix"]
        /\ in = r
        /\ parsed = NilPrefix
        /\ called = FALSE
        /\ lastCall = NoCall

SpecPrefix == InitPrefix /\ [][Parse]_vars

----------------------------------------------------------------------------
(* What the properties are stated in.                                      *)

(* The runes among the elements of a stretch of the source.                *)
IsRune(e) == e # ErrIO
Runes(s) == SelectSeq(s, IsRune)

(* The runes the source has handed out since the last scan step began and  *)
(* has not taken back.                                                     *)
Consumed == Runes(SubSeq(src, startPos + 1, pos))

EndsWithCRLF(s) == Len(s) >= 2 /\ s[Len(s) - 1] = CR /\ s[Len(s)] = LF

(* The last call of Scan ran a scan step and returned a message.           *)
Returned == nscan > 0 /\ ret

(* The last call of Scan ran a scan step that failed.                      *)
StepFailed == nscan > 0 /\ ~ret /\ nstopped = 0

----------------------------------------------------------------------------
(* C1: every message Scan returns without error has a non-empty command.   *)
(* The code returns a message with an empty command for an empty line.     *)
C1_CommandNonEmpty == Returned => message.Command # <<>>

(* C2: the raw buffer holds exactly the runes consumed since the step      *)
(* began, whatever reads and unreads the step has made, and the Raw of a   *)
(* returned message is that text, from the first rune read in the step     *)
(* through the LF of its terminator.                                       *)
C2_RawIsConsumed ==
    /\ rawBuf = Consumed
    /\ Returned => /\ message.Raw = Consumed
                   /\ EndsWithCRLF(message.Raw)

(* A message with a prefix and parameters was returned: its step has read  *)
(* and unread in skipSpace, isLineEnd and next.                            *)
C2_Witness ==
    /\ Returned
    /\ ~message.Tags.isNil
    /\ message.Prefix # <<>>
    /\ message.Params # <<>>

(* C3: a tag block decodes to a map that holds each token without '=' as a *)
(* key with the empty value and each token with exactly one '=' as key and *)
(* value, a single token without a semicolon included.  (Stated for a      *)
(* block of at least one rune; of two tokens with one key the later one is *)
(* the one looked for.)  The code leaves the map empty when the block has  *)
(* no semicolon.                                                           *)
TagString ==
    LET rest == SubSeq(src, startPos + 2, Len(src))
    IN  SubSeq(rest, 1, Index(rest, tokenSpace) - 1)

TagKey(v) == Split(v, tokenEquals)[1]

C3_TagsDecoded ==
    (Returned /\ src[startPos + 1] = runeAt /\ TagString # <<>>) =>
        LET toks == Split(TagString, tokenSemicolon)
        IN  \A i \in 1..Len(toks) :
                LET pair == Split(toks[i], tokenEquals)
                IN  (/\ Len(pair) <= 2
                     /\ \A j \in (i+1)..Len(toks) : TagKey(toks[j]) # pair[1])
                    => /\ ~message.Tags.isNil
                       /\ <<pair[1], IF Len(pair) = 2 THEN pair[2] ELSE <<>>>>
                              \in message.Tags.kv

(* C8: a scan step that has consumed at least one rune when the source     *)
(* reports end-of-input fails with io.ErrUnexpectedEOF, and Err is nil     *)
(* after a failed step only if the step consumed nothing.  The code hands  *)
(* on the io.EOF that isLineEnd meets after the command.                   *)
C8_MidMessageEOF ==
    StepFailed =>
        /\ (err \in {ioEOF, ioErrUnexpectedEOF} /\ pos > startPos)
               => Err = ioErrUnexpectedEOF
        /\ Err = nil => pos = startPos

(* C9: when the stream ends right after the LF of a returned message, the  *)
(* next call of Scan returns false, consumes nothing, keeps the message    *)
(* and leaves Err nil: next has returned io.EOF.                           *)
C9_CleanEnd ==
    [][(Returned /\ pos = Len(src))
         => /\ ~ret'
            /\ err' = ioEOF
            /\ Err' = nil
            /\ pos' = pos
            /\ message' = message]_vars

C9_Witness ==
    /\ StepFailed
    /\ err = ioEOF
    /\ startPos = Len(src)
    /\ pos = Len(src)
    /\ EndsWithCRLF(message.Raw)

(* C10: once a call of Scan has returned false, every later call returns   *)
(* false, reads nothing from the source and leaves the value of Err as it  *)
(* was.                                                                    *)
C10_FailureIsTerminal ==
    [][(nscan > 0 /\ ~ret)
         => /\ ~ret'
            /\ pos' = pos
            /\ srcLast' = srcLast
            /\ Err' = Err]_vars

(* Two calls were refused after a malformed message.                       *)
C10_Witness ==
    /\ nstopped >= 2
    /\ err = ErrMessageMalformed
    /\ pos < Len(src)

----------------------------------------------------------------------------
(* The parameter text of a parameter stream, cut as the claims cut it.     *)

ParamText == SubSeq(src, 3, Len(src) - 2)
ParamTokens == Split(ParamText, tokenSpace)

(* The first token that begins with ':', or one past the last token.       *)
FirstTrailing ==
    LET T == {i \in 1..Len(ParamTokens) : HasPrefix(ParamTokens[i], tokenColon)}
    IN  IF T = {} THEN Len(ParamTokens) + 1
        ELSE CHOOSE i \in T : \A j \in T : i <= j

(* Where that token's ':' stands in the text.                              *)
TrailingMarker ==
    LET M == {i \in 1..Len(ParamText) :
                 /\ ParamText[i] = runeColon
                 /\ i = 1 \/ ParamText[i - 1] = runeSpace}
    IN  CHOOSE i \in M : \A j \in M : i <= j

NonEmpty(v) == v # <<>>
MiddleParams == SelectSeq(SubSeq(ParamTokens, 1, FirstTrailing - 1), NonEmpty)

(* C4: the parameters before the trailing one are the non-empty tokens of  *)
(* the text between command and terminator that precede the first token    *)
(* beginning with ':', in order; a ':' inside a token is content.  The     *)
(* code drops a CR that is not followed by LF from the text (C16).         *)
C4_MiddleParams ==
    (Returned /\ gen.kind = "params") =>
        /\ Len(message.Params) =
               Len(MiddleParams) + (IF FirstTrailing <= Len(ParamTokens) THEN 1 ELSE 0)
        /\ SubSeq(message.Params, 1, Len(MiddleParams)) = MiddleParams

(* C5: when a token begins with ':', the last parameter is the text from   *)
(* after that ':' to the terminator, rune for rune.  The code drops a CR   *)
(* that is not followed by LF from it (C16).                               *)
C5_TrailingVerbatim ==
    (Returned /\ gen.kind = "params" /\ FirstTrailing <= Len(ParamTokens)) =>
        /\ message.Params # <<>>
        /\ message.Params[Len(message.Params)] =
               SubSeq(ParamText, TrailingMarker + 1, Len(ParamText))

----------------------------------------------------------------------------
(* C6: two messages that differ only in the lengths (>= 1) of the runs of  *)
(* spaces between their fields decode to the same Tags, Prefix, Command    *)
(* and Params: each message decodes, and decodes as the message with the   *)
(* same fields and single spaces does.                                     *)
Decoded(m) == [m EXCEPT !.Raw = <<>>]

C6_SpaceRuns ==
    (gen.kind = "fields" /\ nscan = 1) =>
        LET one == next(NewScanner(Line(gen.f, OneSpace)))
        IN  /\ ret
            /\ one.err = nil
            /\ Decoded(message) = Decoded(one.msg)
            /\ message.Raw = src

(* A message with every field, and more than one space in every run.       *)
C6_Witness ==
    /\ gen.kind = "fields"
    /\ Returned
    /\ \A i \in GapPlaces : gen.g[i] > 1
    /\ ~message.Tags.isNil
    /\ message.Prefix # <<>>
    /\ Len(message.Params) = 3
    /\ gen.f.trailing # <<>>
    /\ message.Raw # Line(gen.f, OneSpace)

----------------------------------------------------------------------------
(* The segments of a padded stream, measured in bytes.                     *)

Wide(s) == {i \in 1..Len(s) : RuneSize(s[i]) = 2}
Bytes(s) == Len(s) + Cardinality(Wide(s))

(* The padding is in the tag segment, which a space ends; or in the rest   *)
(* of the message, which CR LF ends and which begins after a tag block.    *)
PadInTags == gen.head = <<runeAt>>
TagBlockBytes ==
    IF gen.head # <<>> /\ gen.head[1] = runeAt /\ ~PadInTags
    THEN Bytes(gen.head) ELSE 0
BytesBeforeTail == Bytes(gen.head) - TagBlockBytes + gen.n * RuneSize(gen.pad)
BytesThrough(i) == BytesBeforeTail + Bytes(SubSeq(gen.tail, 1, i))

(* The segment ends within the budget.                                     *)
EndsWithinBudget ==
    IF PadInTags
    THEN \E i \in 1..Len(gen.tail) :
            gen.tail[i] = runeSpace /\ BytesThrough(i) <= maxMessageSize
    ELSE \E i \in 1..(Len(gen.tail) - 1) :
            /\ gen.tail[i] = CR
            /\ gen.tail[i + 1] = LF
            /\ BytesThrough(i + 1) <= maxMessageSize

OverBudget == BytesThrough(Len(gen.tail)) > maxMessageSize /\ ~EndsWithinBudget

(* C7: a message with more than 512 bytes in its tag segment, or more than *)
(* 512 bytes after it without its CR LF, makes Scan return false with      *)
(* ErrMessageMalformed, whatever follows the excess byte.  The code        *)
(* discards the error isLineEnd meets in readParams and then reports what  *)
(* the next read meets.                                                    *)
C7_OverBudgetIsMalformed ==
    (gen.kind = "budget" /\ nscan >= 1 /\ OverBudget) =>
        /\ ~ret
        /\ err = ErrMessageMalformed

----------------------------------------------------------------------------
(* C11: when the source returns an I/O error other than end-of-input on a  *)
(* read of a scan step, that call of Scan returns false and Err is that    *)
(* error.  The code drops the error in skipSpace and in the isLineEnd call *)
(* of readParams, reads on and returns a message.                          *)
IOErrorMet == \E i \in (startPos + 1)..pos : src[i] = ErrIO

C11_IOErrorReported ==
    (nscan > 0 /\ IOErrorMet) => (~ret /\ Err = ErrIO)

----------------------------------------------------------------------------
(* The positions of a rune in the argument of ParsePrefix.                 *)
Places(ch) == {i \in 1..Len(in) : in[i] = ch}
First(S) == CHOOSE i \in S : \A j \in S : i <= j
Last(S) == CHOOSE i \in S : \A j \in S : j <= i
Has(ch) == Places(ch) # {}

----------------------------------------------------------------------------
(* C13: a Prefix is cut at first occurrences.  With a '!': Nickname is the *)
(* text before the first '!'; if an '@' stands after that '!', User is the *)
(* text between them and Host the text after the first such '@', else User *)
(* is the text after the '!' and Host is empty.  Without a '!' but with an *)
(* '@': Nickname is the text before the first '@', Host the text after it, *)
(* User empty.  Otherwise a '.' makes it a server with the whole string as *)
(* Host, and without a '.' the whole string is the Nickname.               *)
Bang == First(Places("!"))
AtAfterBang == {i \in Places("@") : i > Bang}
FirstAt == First(Places("@"))
After(i) == SubSeq(in, i + 1, Len(in))
Before(i) == SubSeq(in, 1, i - 1)

C13_FirstOccurrences ==
    (called /\ ~parsed.isNil) =>
        IF Has("!")
        THEN /\ parsed.Nickname = Before(Bang)
             /\ ~parsed.IsServer
             /\ IF AtAfterBang # {}
                THEN /\ parsed.User = SubSeq(in, Bang + 1, First(AtAfterBang) - 1)
                     /\ parsed.Host = After(First(AtAfterBang))
                ELSE /\ parsed.User = After(Bang)
                     /\ parsed.Host = <<>>
        ELSE IF Has("@")
        THEN /\ parsed.Nickname = Before(FirstAt)
             /\ parsed.Host = After(FirstAt)
             /\ parsed.User = <<>>
             /\ ~parsed.IsServer
        ELSE IF Has(".")
        THEN /\ parsed.IsServer
             /\ parsed.Host = in
             /\ parsed.Nickname = <<>>
             /\ parsed.User = <<>>
        ELSE /\ parsed.Nickname = in
             /\ parsed.User = <<>>
             /\ parsed.Host = <<>>
             /\ ~parsed.IsServer

(* A Prefix cut at a '!' that has an '@' before it and an '@' after it.    *)
C13_Witness ==
    /\ called
    /\ ~parsed.isNil
    /\ Has("!")
    /\ \E i \in Places("@") : i < Bang
    /\ AtAfterBang # {}
    /\ parsed.Host # <<>>

----------------------------------------------------------------------------
(* C14: when a token of the tag block holds more than one '=', the scan    *)
(* step fails with ErrMessageMalformed and returns no message, for a block *)
(* of one token as for a block of several.  The code does not look at the  *)
(* token of a block without a semicolon.                                   *)
TagStep == nscan > 0 /\ startPos < Len(src) /\ src[startPos + 1] = runeAt

TagTokens == Split(TagString, tokenSemicolon)

ManyEquals(v) == Len(Split(v, tokenEquals)) > 2

C14_ManyEqualsMalformed ==
    (TagStep /\ \E i \in 1..Len(TagTokens) : ManyEquals(TagTokens[i])) =>
        (~ret /\ err = ErrMessageMalformed)

----------------------------------------------------------------------------
(* The first line of the stream and, when it begins with '@', its tag      *)
(* segment: '@' through the last of the spaces that end the tag block.     *)
LineEnds == {i \in 2..Len(src) : src[i - 1] = CR /\ src[i] = LF}
FirstLine == SubSeq(src, 1, First(LineEnds))
TagSpaces ==
    {i \in 1..Len(FirstLine) :
        /\ FirstLine[i] = runeSpace
        /\ \A j \in 1..(i - 1) :
               FirstLine[j] = runeSpace => \A k \in j..i : FirstLine[k] = runeSpace}
TagSegment == SubSeq(FirstLine, 1, Last(TagSpaces))
Remainder == SubSeq(FirstLine, Len(TagSegment) + 1, Len(FirstLine))

(* C15: the budgets of 512 bytes are separate.  A message whose tag        *)
(* segment has at most 512 bytes and whose remainder, through LF, has at   *)
(* most 512 bytes is returned, whatever its total; a message without a tag *)
(* block is returned exactly when it has at most 512 bytes with its CR LF. *)
C15_SeparateBudgets ==
    (gen.kind = "budget" /\ nscan = 1 /\ LineEnds # {}) =>
        IF src[1] = runeAt
        THEN (/\ TagSpaces # {}
              /\ Bytes(TagSegment) <= maxMessageSize
              /\ Bytes(Remainder) <= maxMessageSize)
                 => (ret /\ message.Raw = FirstLine)
        ELSE ret <=> Bytes(FirstLine) <= maxMessageSize

(* A message was returned whose remainder fills its budget to the byte,    *)
(* after a tag block.                                                      *)
C15_Witness ==
    /\ gen.kind = "budget"
    /\ nscan = 1
    /\ ret
    /\ LineEnds # {}
    /\ src[1] = runeAt
    /\ Bytes(Remainder) = maxMessageSize
    /\ Bytes(FirstLine) > maxMessageSize
    /\ message.Raw = FirstLine

----------------------------------------------------------------------------
(* C16: when isLineEnd reports "not end" without an error it has consumed  *)
(* nothing: the position in the source, the raw buffer and the size        *)
(* counter are as they were before the call.  After a CR and a rune other  *)
(* than LF the code calls unread twice in a row; the second call fails and *)
(* the CR stays consumed.                                                  *)
NotEndReported == lastCall.op = "isLineEnd" /\ ~lastCall.end /\ lastCall.err = nil

C16_NotEndConsumesNothing ==
    NotEndReported =>
        /\ pos = lastCall.before.pos
        /\ rawBuf = lastCall.before.rawBuf
        /\ currentMsgSize = lastCall.before.currentMsgSize

----------------------------------------------------------------------------
(* C17: a scan step consumes no further than the first CR LF of its        *)
(* message: the Raw of a returned message holds CR LF once, at its end,    *)
(* and no tag, prefix, command or parameter holds a CR LF.  The code reads *)
(* a tag block and a prefix up to a space, through any CR LF on the way.   *)
HasCRLF(s) == \E i \in 1..(Len(s) - 1) : s[i] = CR /\ s[i + 1] = LF

C17_OneLinePerStep ==
    Returned =>
        /\ EndsWithCRLF(message.Raw)
        /\ ~HasCRLF(SubSeq(message.Raw, 1, Len(message.Raw) - 1))
        /\ ~HasCRLF(message.Prefix)
        /\ ~HasCRLF(message.Command)
        /\ \A i \in 1..Len(message.Params) : ~HasCRLF(message.Params[i])
        /\ \A t \in message.Tags.kv : ~HasCRLF(t[1]) /\ ~HasCRLF(t[2])

----------------------------------------------------------------------------
(* C18: as long as every call of Scan has returned a message, the Raw of   *)
(* the messages returned, one after the other, are the stream as far as it *)
(* has been consumed, rune for rune, and the last step ended right after   *)
(* the LF of its message, where the next step begins.                      *)
AllReturned == nscan > 0 /\ err = nil

C18_RawsAreTheStream ==
    AllReturned =>
        /\ raws = Runes(SubSeq(src, 1, pos))
        /\ message.Raw = Runes(SubSeq(src, startPos + 1, pos))
        /\ src[pos] = LF

(* Three messages were returned, the last of them with tags.               *)
C18_Witness ==
    /\ AllReturned
    /\ nscan = 3
    /\ ~message.Tags.isNil
    /\ Len(raws) > Len(message.Raw)
    /\ startPos > 0

----------------------------------------------------------------------------
(* C19: on a stream of messages of the format, the message the k-th call   *)
(* of Scan returns is the message the first call of Scan returns on a new  *)
(* Scanner over the k-th message alone: nothing an earlier step left in    *)
(* the buffers, the size counter or the reader changes a later step.       *)
Alone(k) == next(NewScanner(gen.bodies[k] \o <<CR, LF>>))

----------------------------------------------------------------------------
(* C20: a Prefix is a server or a user, never both and never neither.  If  *)
(* IsServer is true the argument holds a '.', no '!' and no '@', Nickname  *)
(* and User are empty and Host is the argument; if IsServer is false the   *)
(* Nickname is not empty and holds no '!'.                                 *)
C20_ServerOrUser ==
    (called /\ ~parsed.isNil) =>
        IF parsed.IsServer
        THEN /\ Has(".")
             /\ ~Has("!")
             /\ ~Has("@")
             /\ parsed.Nickname = <<>>
             /\ parsed.User = <<>>
             /\ parsed.Host = in
        ELSE /\ parsed.Nickname # <<>>
             /\ \A i \in 1..Len(parsed.Nickname) : parsed.Nickname[i] # "!"

(* A server prefix was returned for the longest argument.                  *)
C20_Witness ==
    /\ called
    /\ ~parsed.isNil
    /\ parsed.IsServer
    /\ Len(in) >= MaxPrefix
    /\ Cardinality(Places(".")) >= 2

----------------------------------------------------------------------------
(* C21: a call of Scan that returns false leaves the stored message as it  *)
(* was, so Message keeps returning the message of the last call that       *)
(* returned true, and the zero Message as long as no call has.             *)
C21_FailureKeepsMessage ==
    /\ [](raws = <<>> => message = Message0)
    /\ [][~ret' => message' = message]_vars

(* A message was returned, the next step failed in the middle of a         *)
(* message, a further call was refused, and the message is still there.    *)
C21_Witness ==
    /\ nstopped >= 1
    /\ ~ret
    /\ err = ioErrUnexpectedEOF
    /\ message.Command # <<>>
    /\ message.Raw = raws

----------------------------------------------------------------------------
(* C22: every scan step ends, on a stream without a space, a CR LF or an   *)
(* end as well.  A pass that stays in the loop of skipSpace, readTags,     *)
(* readPrefix, readCommand or readParams has moved on in the stream and    *)
(* has raised the size counter, which it leaves at 512 at most: no loop    *)
(* makes more than 512 such passes.  And a step has returned a message or  *)
(* an error before the stream is used up, no more than two runes beyond    *)
(* the 512 bytes of each of its segments.                                  *)
StepBytes == Bytes(SubSeq(src, startPos + 1, pos))
StepBudget ==
    IF src[startPos + 1] = runeAt THEN 2 * maxMessageSize ELSE maxMessageSize
Overrun == 2 * RuneSize("e'")

PassStayed == gen.kind = "loop" /\ lastCall.n > 0 /\ ~lastCall.end

C22_StepsEnd ==
    /\ (gen.kind = "endless" /\ nscan >= 1) =>
           /\ pos < Len(src)
           /\ StepBytes <= StepBudget + Overrun
           /\ ret \/ err # nil
    /\ PassStayed =>
           /\ pos > lastCall.before.pos
           /\ currentMsgSize > lastCall.before.currentMsgSize
           /\ currentMsgSize <= maxMessageSize

(* A step on a stream without end has failed with ErrMessageMalformed      *)
(* after a tag segment and more than 512 bytes behind it.                  *)
C22_Witness ==
    /\ gen.kind = "endless"
    /\ nscan >= 1
    /\ ~ret
    /\ err = ErrMessageMalformed
    /\ StepBytes > StepBudget
    /\ src[startPos + 1] = runeAt
    /\ pos < Len(src)

====
